---- MODULE Spec2Model ----
(***************************************************************************)
(* Model of app.py: the bicycle-helmet data pipeline.                      *)
(*                                                                         *)
(* Text is a sequence of one-character strings.  A parsed value is a       *)
(* tagged record: a string [t |-> "str", s |-> <<chars>>], a number        *)
(* [t |-> "num", inf |-> BOOLEAN, n |-> Nat] (inf is the float +infinity   *)
(* that json.loads yields for 1e999), a list [t |-> "arr", items |-> ...]  *)
(* or a dict [t |-> "obj", pairs |-> <<[k |-> name, v |-> value], ...>>]   *)
(* whose pairs are in insertion order with distinct names.  A helmet       *)
(* record is a dict; a field name is the text of its key.  Numbers are     *)
(* naturals or +infinity: no value is negative, fractional or NaN.         *)
(***************************************************************************)
EXTENDS Integers, Sequences, FiniteSets, TLC

VARIABLES
    pc,             \* where the run stands
    args,           \* the options given on the command line, in argparse's order
    js_code,        \* response.text
    bicycle_data,   \* the record list handed to the filter
    filters,        \* the filter mapping, as its (name, value) entries in order
    filtered_data,  \* what filter_bicycle_data returned
    log,            \* the lines logged so far
    printed,        \* what print_results wrote
    stages,         \* the stages main has entered, in order
    exit_status     \* the process's exit status, -1 while it runs

vars ==
    <<pc, args, js_code, bicycle_data, filters, filtered_data, log, printed,
      stages, exit_status>>

\* Longest record list and longest filter mapping the filter is called with,
\* and the most object literals in a response text.
MaxRecords == 3
MaxFilters == 2
MaxTextRecords == 2

(***************************************************************************)
(* Characters, str(), float() and str.lower() as the code uses them.       *)
(***************************************************************************)
Digits == <<"0", "1", "2", "3", "4", "5", "6", "7", "8", "9">>

UpperChars ==
    <<"A", "B", "C", "D", "E", "F", "G", "H", "I", "J", "K", "L", "M",
      "N", "O", "P", "Q", "R", "S", "T", "U", "V", "W", "X", "Y", "Z">>

LowerChars ==
    <<"a", "b", "c", "d", "e", "f", "g", "h", "i", "j", "k", "l", "m",
      "n", "o", "p", "q", "r", "s", "t", "u", "v", "w", "x", "y", "z">>

IsDigit(c) == \E k \in 1..10 : Digits[k] = c

DigitVal(c) == (CHOOSE k \in 1..10 : Digits[k] = c) - 1

Str(s) == [t |-> "str", s |-> s]

Num(k) == [t |-> "num", inf |-> FALSE, n |-> k]

NumInf == [t |-> "num", inf |-> TRUE, n |-> 0]

Arr(items) == [t |-> "arr", items |-> items]

Obj(pairs) == [t |-> "obj", pairs |-> pairs]

\* field in item
HasField(item, field) == \E k \in 1..Len(item.pairs) : item.pairs[k].k = field

\* item[field]
Get(item, field) ==
    item.pairs[CHOOSE k \in 1..Len(item.pairs) : item.pairs[k].k = field].v

\* str.lower() on one character
LowerChar(c) ==
    IF \E k \in 1..26 : UpperChars[k] = c
    THEN LowerChars[CHOOSE k \in 1..26 : UpperChars[k] = c]
    ELSE c

\* str.lower()
Lower(s) == [k \in 1..Len(s) |-> LowerChar(s[k])]

RECURSIVE DigitsOf(_)
\* the decimal text of a natural number
DigitsOf(k) ==
    IF k < 10 THEN <<Digits[k + 1]>>
    ELSE DigitsOf(k \div 10) \o <<Digits[(k % 10) + 1]>>

\* repr() of a string without double quotes and backslashes: in single quotes,
\* or in double quotes when it holds a single quote
ReprStr(s) ==
    IF \E k \in 1..Len(s) : s[k] = "'"
    THEN <<"\"">> \o s \o <<"\"">>
    ELSE <<"'">> \o s \o <<"'">>

RECURSIVE PyRepr(_), ReprItems(_), ReprPairs(_)
\* repr(value)
PyRepr(v) ==
    IF v.t = "str" THEN ReprStr(v.s)
    ELSE IF v.t = "num" THEN (IF v.inf THEN <<"i", "n", "f">> ELSE DigitsOf(v.n))
    ELSE IF v.t = "arr" THEN <<"[">> \o ReprItems(v.items) \o <<"]">>
    ELSE <<"{">> \o ReprPairs(v.pairs) \o <<"}">>

ReprItems(items) ==
    IF items = <<>> THEN <<>>
    ELSE PyRepr(Head(items))
             \o (IF Len(items) > 1 THEN <<",", " ">> ELSE <<>>)
             \o ReprItems(Tail(items))

ReprPairs(pairs) ==
    IF pairs = <<>> THEN <<>>
    ELSE ReprStr(Head(pairs).k) \o <<":", " ">> \o PyRepr(Head(pairs).v)
             \o (IF Len(pairs) > 1 THEN <<",", " ">> ELSE <<>>)
             \o ReprPairs(Tail(pairs))

\* str(value): a string is its own text, anything else its repr
PyStr(v) == IF v.t = "str" THEN v.s ELSE PyRepr(v)

RECURSIVE DigitsValue(_)
DigitsValue(s) ==
    IF s = <<>> THEN 0
    ELSE 10 * DigitsValue(SubSeq(s, 1, Len(s) - 1)) + DigitVal(s[Len(s)])

NoFloat == [ok |-> FALSE, inf |-> FALSE, n |-> 0]

\* float(text) for texts of digits, "$" and the letters of "giro" and "inf" in
\* either case (the texts of the inputs below): the digit strings convert, and
\* "inf" in any case; anything else raises ValueError (ok = FALSE)
ParseFloat(s) ==
    IF s # <<>> /\ \A k \in 1..Len(s) : IsDigit(s[k])
    THEN [ok |-> TRUE, inf |-> FALSE, n |-> DigitsValue(s)]
    ELSE IF Lower(s) = <<"i", "n", "f">>
    THEN [ok |-> TRUE, inf |-> TRUE, n |-> 0]
    ELSE NoFloat

\* float(value): a list or a dict raises TypeError (ok = FALSE)
PyFloat(v) ==
    IF v.t = "str" THEN ParseFloat(v.s)
    ELSE IF v.t = "num" THEN [ok |-> TRUE, inf |-> v.inf, n |-> v.n]
    ELSE NoFloat

\* a <= b on floats
FloatLE(a, b) == b.inf \/ (~a.inf /\ a.n <= b.n)

\* a < b on floats
FloatLT(a, b) == ~a.inf /\ (b.inf \/ a.n < b.n)

RECURSIVE Replace(_, _)
\* s.replace(c, ""): every occurrence of c removed
Replace(s, c) ==
    IF s = <<>> THEN <<>>
    ELSE IF Head(s) = c THEN Replace(Tail(s), c)
    ELSE <<Head(s)>> \o Replace(Tail(s), c)

(***************************************************************************)
(* Field names.                                                            *)
(***************************************************************************)
F_style == <<"s", "t", "y", "l", "e">>
F_cost == <<"c", "o", "s", "t">>
F_score == <<"s", "c", "o", "r", "e">>
F_brand == <<"b", "r", "a", "n", "d">>
F_rating == <<"r", "a", "t", "i", "n", "g">>
F_date == <<"d", "a", "t", "e">>
F_certifications ==
    <<"c", "e", "r", "t", "i", "f", "i", "c", "a", "t", "i", "o", "n", "s">>
F_model == <<"m", "o", "d", "e", "l">>

(***************************************************************************)
(* The filter.                                                             *)
(***************************************************************************)
MAX_THRESHOLD_FIELDS == {F_cost, F_score}

\* a conversion that takes one leading dollar sign off the cost, not every one
ThresholdItemValue_LeadingDollar(item_value, field) ==
    IF field = F_cost
    THEN LET text == PyStr(item_value)
         IN  ParseFloat(IF text # <<>> /\ Head(text) = "$" THEN Tail(text) ELSE text)
    ELSE PyFloat(item_value)

\* the item-side conversion of _check_threshold_filter
ThresholdItemValue(item_value, field) ==
    IF field = F_cost
    THEN ParseFloat(Replace(PyStr(item_value), "$"))
    ELSE PyFloat(item_value)

\* result: the returned bool; warned: the conversion raised and was logged
check_threshold_filter(item_value, filter_value, field) ==
    LET item_val == ThresholdItemValue(item_value, field)
        max_val == PyFloat(filter_value)
    IN  IF item_val.ok /\ max_val.ok
        THEN [result |-> FloatLE(item_val, max_val), warned |-> FALSE]
        ELSE [result |-> FALSE, warned |-> TRUE]

\* a comparison that does not lower the case
ExactMatch_CaseSensitive(item_value, value) == PyStr(item_value) = PyStr(value)

\* the exact-match branch of _item_matches_filters
ExactMatch(item_value, value) == Lower(PyStr(item_value)) = Lower(PyStr(value))

\* a loop that returns True after the first entry that accepts
item_matches_filters_FirstEntryOnly(item, fs) ==
    IF fs = <<>> THEN [match |-> TRUE, warns |-> <<>>]
    ELSE LET field == Head(fs).k
             value == Head(fs).v
         IN  IF ~HasField(item, field)
             THEN [match |-> FALSE, warns |-> <<>>]
             ELSE IF field \in MAX_THRESHOLD_FIELDS
             THEN LET c == check_threshold_filter(Get(item, field), value, field)
                  IN  [match |-> c.result,
                       warns |-> IF c.warned THEN <<field>> ELSE <<>>]
             ELSE [match |-> ExactMatch(Get(item, field), value), warns |-> <<>>]

RECURSIVE item_matches_filters(_, _)
\* fs is the sequence of the dict's (field, value) entries in its order.
\* match: the returned bool; warns: the fields whose conversion was logged
item_matches_filters(item, fs) ==
    IF fs = <<>> THEN [match |-> TRUE, warns |-> <<>>]
    ELSE LET field == Head(fs).k
             value == Head(fs).v
         IN  IF ~HasField(item, field)
             THEN [match |-> FALSE, warns |-> <<>>]
             ELSE IF field \in MAX_THRESHOLD_FIELDS
             THEN LET c == check_threshold_filter(Get(item, field), value, field)
                      w == IF c.warned THEN <<field>> ELSE <<>>
                  IN  IF ~c.result
                      THEN [match |-> FALSE, warns |-> w]
                      ELSE LET rest == item_matches_filters(item, Tail(fs))
                           IN  [match |-> rest.match, warns |-> w \o rest.warns]
             ELSE IF ~ExactMatch(Get(item, field), value)
             THEN [match |-> FALSE, warns |-> <<>>]
             ELSE item_matches_filters(item, Tail(fs))

RECURSIVE FilterLoop(_, _)
\* the for loop of filter_bicycle_data: the items kept, and the warnings logged
FilterLoop(data, fs) ==
    IF data = <<>> THEN [kept |-> <<>>, warns |-> <<>>]
    ELSE LET m == item_matches_filters(Head(data), fs)
             rest == FilterLoop(Tail(data), fs)
         IN  [kept |-> (IF m.match THEN <<Head(data)>> ELSE <<>>) \o rest.kept,
              warns |-> m.warns \o rest.warns]

\* the sort key: float(x.get("score", float("inf")))
SortKey(x) == IF HasField(x, F_score) THEN PyFloat(Get(x, F_score)) ELSE PyFloat(NumInf)

RECURSIVE InsertSorted_BeforeEqual(_, _)
\* an insertion that puts x before the elements whose key equals its own
InsertSorted_BeforeEqual(sorted, x) ==
    IF sorted = <<>> THEN <<x>>
    ELSE IF FloatLE(SortKey(x), SortKey(Head(sorted)))
    THEN <<x>> \o sorted
    ELSE <<Head(sorted)>> \o InsertSorted_BeforeEqual(Tail(sorted), x)

RECURSIVE InsertSorted(_, _)
\* x put after every element whose key is not greater than its own
InsertSorted(sorted, x) ==
    IF sorted = <<>> THEN <<x>>
    ELSE IF FloatLT(SortKey(x), SortKey(Head(sorted)))
    THEN <<x>> \o sorted
    ELSE <<Head(sorted)>> \o InsertSorted(Tail(sorted), x)

RECURSIVE SortByScore(_)
\* list.sort(key = ...): a stable ascending sort
SortByScore(items) ==
    IF items = <<>> THEN <<>>
    ELSE InsertSorted(SortByScore(SubSeq(items, 1, Len(items) - 1)), items[Len(items)])

WarnLines(fields) == [k \in 1..Len(fields) |-> <<"WARNING", "convert", fields[k]>>]

\* a filter that sorts the caller's list in place and then selects from it
filter_bicycle_data_SortsInput(data, fs) ==
    IF data = <<>>
    THEN [raised |-> FALSE, result |-> <<>>, data |-> data,
          lines |-> <<<<"WARNING", "no data", <<>>>>>>]
    ELSE IF \A k \in 1..Len(data) : SortKey(data[k]).ok
    THEN LET loop == FilterLoop(SortByScore(data), fs)
         IN  [raised |-> FALSE, result |-> loop.kept, data |-> SortByScore(data),
              lines |-> WarnLines(loop.warns) \o <<<<"INFO", "filtered", <<>>>>>>]
    ELSE [raised |-> TRUE, result |-> <<>>, data |-> data, lines |-> <<>>]

\* raised: BicycleDataError left the function; result: the returned list;
\* data: the caller's list after the call (the loop and the sort work on the
\* new list filtered_data); lines: what the call logged
filter_bicycle_data(data, fs) ==
    IF data = <<>>
    THEN [raised |-> FALSE, result |-> <<>>, data |-> data,
          lines |-> <<<<"WARNING", "no data", <<>>>>>>]
    ELSE LET loop == FilterLoop(data, fs)
             keysOk == \A k \in 1..Len(loop.kept) : SortKey(loop.kept[k]).ok
         IN  IF keysOk
             THEN [raised |-> FALSE,
                   result |-> SortByScore(loop.kept),
                   data |-> data,
                   lines |-> WarnLines(loop.warns) \o <<<<"INFO", "filtered", <<>>>>>>]
             ELSE [raised |-> TRUE, result |-> <<>>, data |-> data,
                   lines |-> WarnLines(loop.warns)]

(***************************************************************************)
(* Extraction: the regular expressions and json.loads of                   *)
(* fetch_bicycle_data.  Texts hold letters, digits, "_", "$", space,       *)
(* newline and the punctuation [ ] { } : , ; = ' " only: no backslash, no  *)
(* sign, fraction or exponent, and none of the words true, false, null,    *)
(* NaN, Infinity outside strings.                                          *)
(***************************************************************************)
\* the character at i, or "" past the end
At(t, i) == IF i >= 1 /\ i <= Len(t) THEN t[i] ELSE ""

\* \s
IsSpace(c) == c \in {" ", "\n"}

\* \w
IsWord(c) ==
    \/ IsDigit(c)
    \/ c = "_"
    \/ \E k \in 1..26 : UpperChars[k] = c \/ LowerChars[k] = c

RECURSIVE SkipSpace(_, _)
\* the first index from i on that holds no white space
SkipSpace(t, i) == IF IsSpace(At(t, i)) THEN SkipSpace(t, i + 1) ELSE i

\* the literal lit stands at i
LitAt(t, i, lit) ==
    /\ i + Len(lit) - 1 <= Len(t)
    /\ \A k \in 1..Len(lit) : t[i + k - 1] = lit[k]

KwConst == <<"c", "o", "n", "s", "t">>

Marker == <<"b", "i", "c", "y", "c", "l", "e", "D", "a", "t", "a", "R", "a", "w">>

NoMatch == [ok |-> FALSE, lo |-> 0, hi |-> 0]

\* const\s+bicycleDataRaw\s*=\s*(\[.*?\]); tried at start index i: group 1 is
\* t[lo..hi], hi the first "]" after lo that a ";" follows
MatchAt(t, i) ==
    LET a == i + Len(KwConst)
        b == SkipSpace(t, a)
        c == SkipSpace(t, b + Len(Marker))
        d == SkipSpace(t, c + 1)
        ends == {q \in (d + 1)..(Len(t) - 1) : t[q] = "]" /\ t[q + 1] = ";"}
    IN  IF /\ LitAt(t, i, KwConst)
           /\ b > a
           /\ LitAt(t, b, Marker)
           /\ At(t, c) = "="
           /\ At(t, d) = "["
           /\ ends # {}
        THEN [ok |-> TRUE, lo |-> d, hi |-> CHOOSE q \in ends : \A r \in ends : q <= r]
        ELSE NoMatch

\* re.search: the match at the leftmost start index that has one
re_search(t) ==
    LET starts == {i \in 1..Len(t) : MatchAt(t, i).ok}
    IN  IF starts = {} THEN NoMatch
        ELSE MatchAt(t, CHOOSE i \in starts : \A j \in starts : i <= j)

RECURSIVE ConcatRange(_, _, _)
\* pieces[lo] \o ... \o pieces[hi]
ConcatRange(pieces, lo, hi) ==
    IF lo > hi THEN <<>>
    ELSE IF lo = hi THEN pieces[lo]
    ELSE LET mid == (lo + hi) \div 2
         IN  ConcatRange(pieces, lo, mid) \o ConcatRange(pieces, mid + 1, hi)

RECURSIVE WordEnd(_, _)
\* the last index of the run of word characters that holds i
WordEnd(t, i) == IF IsWord(At(t, i + 1)) THEN WordEnd(t, i + 1) ELSE i

\* \w+(?=\s*:) matches the run of word characters that holds i: white space
\* and a colon follow the run (a match cannot end inside a run, and a run that
\* fails from its first character fails from every later one)
InKeyRun(t, i) == IsWord(t[i]) /\ At(t, SkipSpace(t, WordEnd(t, i) + 1)) = ":"

\* re.sub(r"(\w+)(?=\s*:)", r'"\1"', t): every run of word characters that
\* white space and a colon follow is put in double quotes
QuoteKeys(t) ==
    LET piece(i) ==
            (IF InKeyRun(t, i) /\ ~IsWord(At(t, i - 1)) THEN <<"\"">> ELSE <<>>)
                \o <<t[i]>>
                \o (IF InKeyRun(t, i) /\ ~IsWord(At(t, i + 1)) THEN <<"\"">> ELSE <<>>)
    IN  ConcatRange([i \in 1..Len(t) |-> piece(i)], 1, Len(t))

\* re.sub(r"'([^']*)'", r'"\1"', t): the single quotes pair up left to right,
\* each pair becomes a pair of double quotes, an odd last one stays
SingleToDouble(t) ==
    LET quotes == {q \in 1..Len(t) : t[q] = "'"}
        rank(i) == Cardinality({q \in quotes : q <= i})
        paired(i) == rank(i) % 2 = 0 \/ rank(i) < Cardinality(quotes)
    IN  [i \in 1..Len(t) |-> IF t[i] = "'" /\ paired(i) THEN "\"" ELSE t[i]]

\* dict[k] = v while parsing: a repeated name keeps its place, the last value wins
DictSet(pairs, k, v) ==
    IF \E x \in 1..Len(pairs) : pairs[x].k = k
    THEN [x \in 1..Len(pairs) |->
             IF pairs[x].k = k THEN [k |-> k, v |-> v] ELSE pairs[x]]
    ELSE Append(pairs, [k |-> k, v |-> v])

ParseFail == [ok |-> FALSE, pos |-> 0, val |-> Str(<<>>)]

\* a JSON string that starts at the double quote at i: up to the next double
\* quote, with no control character in it
ParseString(t, i) ==
    LET closes == {q \in (i + 1)..Len(t) : t[q] = "\""}
    IN  IF closes = {} THEN ParseFail
        ELSE LET j == CHOOSE q \in closes : \A r \in closes : q <= r
             IN  IF \E q \in (i + 1)..(j - 1) : t[q] = "\n" THEN ParseFail
                 ELSE [ok |-> TRUE, pos |-> j + 1, val |-> Str(SubSeq(t, i + 1, j - 1))]

RECURSIVE DigitsEnd(_, _)
DigitsEnd(t, i) == IF IsDigit(At(t, i + 1)) THEN DigitsEnd(t, i + 1) ELSE i

\* a JSON number that starts at the digit at i: 0, or a run without leading 0
ParseNumber(t, i) ==
    LET j == IF t[i] = "0" THEN i ELSE DigitsEnd(t, i)
    IN  [ok |-> TRUE, pos |-> j + 1, val |-> Num(DigitsValue(SubSeq(t, i, j)))]

RECURSIVE ParseValue(_, _), ParseItems(_, _, _), ParsePairs(_, _, _)
\* the JSON value that starts at i (white space already skipped)
ParseValue(t, i) ==
    LET c == At(t, i)
    IN  IF c = "\"" THEN ParseString(t, i)
        ELSE IF IsDigit(c) THEN ParseNumber(t, i)
        ELSE IF c = "["
        THEN LET a == SkipSpace(t, i + 1)
             IN  IF At(t, a) = "]" THEN [ok |-> TRUE, pos |-> a + 1, val |-> Arr(<<>>)]
                 ELSE ParseItems(t, a, <<>>)
        ELSE IF c = "{"
        THEN LET a == SkipSpace(t, i + 1)
             IN  IF At(t, a) = "}" THEN [ok |-> TRUE, pos |-> a + 1, val |-> Obj(<<>>)]
                 ELSE ParsePairs(t, a, <<>>)
        ELSE ParseFail

\* the rest of a list from the value at i on, acc the items parsed so far
ParseItems(t, i, acc) ==
    LET v == ParseValue(t, i)
        a == SkipSpace(t, v.pos)
    IN  IF ~v.ok THEN ParseFail
        ELSE IF At(t, a) = ","
        THEN ParseItems(t, SkipSpace(t, a + 1), Append(acc, v.val))
        ELSE IF At(t, a) = "]"
        THEN [ok |-> TRUE, pos |-> a + 1, val |-> Arr(Append(acc, v.val))]
        ELSE ParseFail

\* the rest of a dict from the name at i on, acc the pairs parsed so far
ParsePairs(t, i, acc) ==
    IF At(t, i) # "\"" THEN ParseFail
    ELSE LET k == ParseString(t, i)
             a == SkipSpace(t, k.pos)
             v == ParseValue(t, SkipSpace(t, a + 1))
             b == SkipSpace(t, v.pos)
         IN  IF ~k.ok \/ At(t, a) # ":" THEN ParseFail
             ELSE IF ~v.ok THEN ParseFail
             ELSE IF At(t, b) = ","
             THEN ParsePairs(t, SkipSpace(t, b + 1), DictSet(acc, k.val.s, v.val))
             ELSE IF At(t, b) = "}"
             THEN [ok |-> TRUE, pos |-> b + 1, val |-> Obj(DictSet(acc, k.val.s, v.val))]
             ELSE ParseFail

\* json.loads(t): one value with nothing but white space around it
json_loads(t) ==
    LET v == ParseValue(t, SkipSpace(t, 1))
    IN  IF v.ok /\ SkipSpace(t, v.pos) > Len(t) THEN v ELSE ParseFail

\* lines 55-72 of fetch_bicycle_data on the response text.
\* error: "" or the reason BicycleDataError is raised with; data: the list
extract(js) ==
    LET match == re_search(js)
        array_text == SubSeq(js, match.lo, match.hi)
        json_text == SingleToDouble(QuoteKeys(array_text))
        data == json_loads(json_text)
    IN  IF ~match.ok THEN [error |-> "Could not find bicycleDataRaw", data |-> <<>>]
        ELSE IF ~data.ok THEN [error |-> "Failed to parse JSON", data |-> <<>>]
        ELSE [error |-> "", data |-> data.val.items]

(***************************************************************************)
(* Presentation.                                                           *)
(***************************************************************************)
\* item.get(field, default) as text
GetText(item, field, default) ==
    IF HasField(item, field) THEN PyStr(Get(item, field)) ELSE default

\* bool(item.get(field))
Truthy(item, field) ==
    /\ HasField(item, field)
    /\ LET v == Get(item, field)
       IN  IF v.t = "str" THEN v.s # <<>>
           ELSE IF v.t = "num" THEN v.inf \/ v.n # 0
           ELSE IF v.t = "arr" THEN v.items # <<>>
           ELSE v.pairs # <<>>

Unknown == <<"U", "n", "k", "n", "o", "w", "n">>

NA == <<"N", "/", "A">>

\* the block print_results writes for one item
ItemBlock(item) ==
    [brand |-> GetText(item, F_brand, Unknown),
     model |-> GetText(item, F_model, Unknown),
     score |-> GetText(item, F_score, NA),
     cost |-> GetText(item, F_cost, NA),
     style |-> GetText(item, F_style, NA),
     rating |-> GetText(item, F_rating, NA),
     date |-> GetText(item, F_date, NA),
     certifications |->
         IF Truthy(item, F_certifications)
         THEN GetText(item, F_certifications, <<>>) ELSE <<>>]

\* one line of the filter summary
SummaryLine(entry) ==
    [maximum |-> entry.k \in MAX_THRESHOLD_FIELDS, key |-> entry.k, value |-> PyStr(entry.v)]

\* what print_results writes: with no item, no summary follows
print_results(items, fs) ==
    IF items = <<>>
    THEN [count |-> 0, blocks |-> <<>>, summary |-> <<>>, none |-> TRUE]
    ELSE [count |-> Len(items),
          blocks |-> [k \in 1..Len(items) |-> ItemBlock(items[k])],
          summary |-> [k \in 1..Len(fs) |-> SummaryLine(fs[k])],
          none |-> FALSE]

NotPrinted == [count |-> 0, blocks |-> <<>>, summary |-> <<>>, none |-> FALSE]

(***************************************************************************)
(* Inputs.                                                                 *)
(***************************************************************************)
RECURSIVE SeqsUpTo(_, _)
\* the sequences over S of length at most n
SeqsUpTo(S, n) ==
    IF n = 0 THEN {<<>>}
    ELSE LET shorter == SeqsUpTo(S, n - 1)
         IN  shorter \cup {Append(q, x) : q \in shorter, x \in S}

Pair(k, v) == [k |-> k, v |-> v]

S_GIRO == <<"G", "I", "R", "O">>
S_giro == <<"g", "i", "r", "o">>
S_Giro == <<"G", "i", "r", "o">>

\* helmet records: costs with a leading and an inner dollar sign, without one,
\* and not numeric; scores as numbers, as numeric text, infinite, not numeric
\* and absent
RecordPool ==
    {Obj(<<Pair(F_brand, Str(S_GIRO)), Pair(F_cost, Str(<<"$", "5">>)),
           Pair(F_score, Num(5))>>),
     Obj(<<Pair(F_brand, Str(S_giro)), Pair(F_cost, Str(<<"1", "$", "0">>)),
           Pair(F_score, Str(<<"5">>))>>),
     Obj(<<Pair(F_brand, Str(S_Giro)), Pair(F_model, Str(<<"R">>)),
           Pair(F_cost, Num(10)), Pair(F_score, Num(20))>>),
     Obj(<<Pair(F_model, Str(<<"r">>)), Pair(F_cost, Str(<<"$", "5">>))>>),
     Obj(<<Pair(F_brand, Num(5)), Pair(F_model, Num(5)), Pair(F_cost, Str(<<"$">>)),
           Pair(F_score, Str(<<"n">>))>>),
     Obj(<<Pair(F_brand, Str(S_GIRO)), Pair(F_score, NumInf)>>)}

\* the record lists filter_bicycle_data is called with
DataInputs == SeqsUpTo(RecordPool, MaxRecords)

\* the values a filter may name for each field
FilterValues(field) ==
    IF field = F_cost THEN {Num(10), Str(<<"5">>), Str(<<"n">>)}
    ELSE IF field = F_score THEN {Num(5), Num(20)}
    ELSE IF field = F_brand THEN {Str(S_giro), Str(<<"5">>)}
    ELSE {Str(<<"R">>), Num(5)}

FilterFields == <<F_cost, F_score, F_brand, F_model>>

FilterEntries ==
    UNION {{[k |-> FilterFields[i], v |-> v, at |-> i] : v \in FilterValues(FilterFields[i])}
              : i \in 1..Len(FilterFields)}

\* the filter mappings: at most MaxFilters entries, no name twice, each
\* mapping listed once, its entries in the order of FilterFields (Orders
\* below gives the other orders a dict can hold them in)
FilterInputs ==
    {[k \in 1..Len(fs) |-> Pair(fs[k].k, fs[k].v)] :
        fs \in {q \in SeqsUpTo(FilterEntries, MaxFilters) :
                   \A i, j \in 1..Len(q) : i < j => q[i].at < q[j].at}}

\* JavaScript source of a value: strings in single quotes, names unquoted
RECURSIVE JsValue(_), JsItems(_), JsPairs(_)
JsValue(v) ==
    IF v.t = "str" THEN <<"'">> \o v.s \o <<"'">>
    ELSE IF v.t = "num" THEN DigitsOf(v.n)
    ELSE IF v.t = "arr" THEN <<"[">> \o JsItems(v.items) \o <<"]">>
    ELSE <<"{">> \o JsPairs(v.pairs) \o <<"}">>

JsItems(items) ==
    IF items = <<>> THEN <<>>
    ELSE JsValue(Head(items))
             \o (IF Len(items) > 1 THEN <<",", " ">> ELSE <<>>)
             \o JsItems(Tail(items))

JsPairs(pairs) ==
    IF pairs = <<>> THEN <<>>
    ELSE Head(pairs).k \o <<":", " ">> \o JsValue(Head(pairs).v)
             \o (IF Len(pairs) > 1 THEN <<",", "\n", " ">> ELSE <<>>)
             \o JsPairs(Tail(pairs))

\* the statement that binds the array literal body to the marker
Assignment(body) ==
    KwConst \o <<" ">> \o Marker \o <<" ", "=", " ">> \o body \o <<";", "\n">>

\* the records response texts are written from: those of RecordPool whose
\* values have a JavaScript source here, and two with nested values
TextRecords ==
    {r \in RecordPool : \A k \in 1..Len(r.pairs) : r.pairs[k].v # NumInf}
        \cup {Obj(<<Pair(F_brand, Str(S_Giro)),
                    Pair(F_certifications, Arr(<<Str(<<"N">>), Num(5)>>))>>),
              Obj(<<Pair(F_score, Num(5)),
                    Pair(F_model, Obj(<<Pair(F_date, Num(20))>>))>>)}

\* response texts written from record lists: the array literal of up to
\* MaxTextRecords records, with the records it is the source of
ListedTexts ==
    {[text |-> Assignment(JsValue(Arr(q))), count |-> Len(q), records |-> q] :
        q \in SeqsUpTo(TextRecords, MaxTextRecords)}

ColonString == <<"'", "G", ":", " ", "5", "'">>

\* further texts that hold a valid array literal bound to the marker, with the
\* number of object literals in it: white space in other places; other
\* statements around it; a string value that holds a name and a colon; a
\* string value that holds "];"; a repeated name
OtherValidTexts ==
    {[text |-> KwConst \o <<"\n", " ">> \o Marker
                   \o <<"=", "[", " ", "{", "}", "\n", "]", ";">>,
      count |-> 1],
     [text |-> <<"x", "=", "[", "5", "]", ";", "\n">>
                   \o Assignment(<<"[", "{", "}", ",", "{", "}", "]">>)
                   \o <<"y", "=", "[", "]", ";">>,
      count |-> 2],
     [text |-> Assignment(<<"[", "{">> \o F_brand \o <<":", " ">> \o ColonString
                              \o <<"}", "]">>),
      count |-> 1],
     [text |-> Assignment(<<"[", "{">> \o F_brand
                              \o <<":", " ", "'", "]", ";", "'", "}", "]">>),
      count |-> 1],
     [text |-> Assignment(<<"[", "{">> \o F_score \o <<":", "5", ",">> \o F_cost
                              \o <<":", "5", ",">> \o F_score
                              \o <<":", "'", "n", "'", "}", "]">>),
      count |-> 1]}

\* texts in looser JavaScript: a trailing comma in the literal; no ";" after it
LooseTexts ==
    {Assignment(<<"[", "{">> \o F_score \o <<":", " ", "5", "}", ",", "]">>),
     KwConst \o <<" ">> \o Marker \o <<" ", "=", " ", "[", "{", "}", "]", "\n">>}

\* texts without the array literal: empty, another name bound, a literal that
\* is not closed
InvalidTexts ==
    {<<>>,
     KwConst \o <<" ", "x", " ", "=", " ", "[", "]", ";">>,
     KwConst \o <<" ">> \o Marker \o <<" ", "=", " ", "[", "{", "}", ";">>}

RawTexts ==
    {c.text : c \in ListedTexts} \cup {c.text : c \in OtherValidTexts}
        \cup LooseTexts \cup InvalidTexts

\* the options a run is started with, in the order argparse holds them:
\* style, cost, score, brand, rating, date, certifications
CliOptions ==
    <<{Str(<<"R">>)}, {Num(5), Num(10)}, {Num(5)}, {Str(S_giro)}, {Num(5)}, {}, {}>>

CliNames == <<F_style, F_cost, F_score, F_brand, F_rating, F_date, F_certifications>>

CliArgs ==
    {fs \in SeqsUpTo(UNION {{[k |-> CliNames[i], v |-> v, at |-> i] : v \in CliOptions[i]}
                            : i \in 1..7}, MaxFilters) :
        \A i, j \in 1..Len(fs) : i < j => fs[i].at < fs[j].at}

(***************************************************************************)
(* main: one run of the program.                                           *)
(***************************************************************************)
Init ==
    /\ pc = "fetch"
    /\ args \in CliArgs
    /\ js_code = <<>>
    /\ bicycle_data = <<>>
    /\ filters = <<>>
    /\ filtered_data = <<>>
    /\ log = <<>>
    /\ printed = NotPrinted
    /\ stages = <<>>
    /\ exit_status = -1

\* the except clauses of main for BicycleDataError: log it, sys.exit(1)
Abort(lines, reason) ==
    /\ log' = log \o lines \o <<<<"ERROR", reason, <<>>>>>>
    /\ pc' = "exit"
    /\ exit_status' = 1

\* requests.get answers with the text
Retrieve ==
    /\ pc = "fetch"
    /\ \E t \in RawTexts : js_code' = t
    /\ pc' = "extract"
    /\ stages' = Append(stages, "retrieval")
    /\ log' = Append(log, <<"INFO", "fetching", <<>>>>)
    /\ UNCHANGED <<args, bicycle_data, filters, filtered_data, printed, exit_status>>

\* requests.get or raise_for_status raises RequestException
RetrieveFails ==
    /\ pc = "fetch"
    /\ stages' = Append(stages, "retrieval")
    /\ Abort(<<<<"INFO", "fetching", <<>>>>>>, "Failed to fetch data")
    /\ UNCHANGED <<args, js_code, bicycle_data, filters, filtered_data, printed>>

\* the rest of fetch_bicycle_data
Extract ==
    /\ pc = "extract"
    /\ stages' = Append(stages, "extraction")
    /\ LET r == extract(js_code)
       IN  IF r.error # ""
           THEN /\ Abort(<<>>, r.error)
                /\ UNCHANGED bicycle_data
           ELSE /\ bicycle_data' = r.data
                /\ log' = Append(log, <<"INFO", "fetched", <<>>>>)
                /\ pc' = "filter"
                /\ UNCHANGED exit_status
    /\ UNCHANGED <<args, js_code, filters, filtered_data, printed>>

\* filters is built from the options and filter_bicycle_data is called
Filter ==
    /\ pc = "filter"
    /\ stages' = Append(stages, "filtering")
    /\ filters' = [k \in 1..Len(args) |-> Pair(args[k].k, args[k].v)]
    /\ LET r == filter_bicycle_data(bicycle_data, filters')
       IN  IF r.raised
           THEN /\ Abort(r.lines, "Failed to filter data")
                /\ bicycle_data' = r.data
                /\ UNCHANGED filtered_data
           ELSE /\ filtered_data' = r.result
                /\ bicycle_data' = r.data
                /\ log' = log \o r.lines
                /\ pc' = "print"
                /\ UNCHANGED exit_status
    /\ UNCHANGED <<args, js_code, printed>>

\* print_results, and main returns
Present ==
    /\ pc = "print"
    /\ stages' = Append(stages, "presentation")
    /\ printed' = print_results(filtered_data, filters)
    /\ pc' = "done"
    /\ exit_status' = 0
    /\ UNCHANGED <<args, js_code, bicycle_data, filters, filtered_data, log>>

\* KeyboardInterrupt inside the try block: logged, sys.exit(0)
Interrupt ==
    /\ pc \in {"fetch", "extract", "filter", "print"}
    /\ log' = Append(log, <<"INFO", "cancelled", <<>>>>)
    /\ pc' = "exit"
    /\ exit_status' = 0
    /\ UNCHANGED <<args, js_code, bicycle_data, filters, filtered_data, printed, stages>>

Next == Retrieve \/ RetrieveFails \/ Extract \/ Filter \/ Present \/ Interrupt

Spec == Init /\ [][Next]_vars

(***************************************************************************)
(* filter_bicycle_data called on its own, with any record list and any     *)
(* filter mapping.                                                         *)
(***************************************************************************)
InitFilter ==
    /\ pc = "call"
    /\ args = <<>>
    /\ js_code = <<>>
    /\ bicycle_data \in DataInputs
    /\ filters \in FilterInputs
    /\ filtered_data = <<>>
    /\ log = <<>>
    /\ printed = NotPrinted
    /\ stages = <<>>
    /\ exit_status = -1

CallFilter ==
    /\ pc = "call"
    /\ LET r == filter_bicycle_data(bicycle_data, filters)
       IN  /\ pc' = IF r.raised THEN "raised" ELSE "returned"
           /\ filtered_data' = r.result
           /\ bicycle_data' = r.data
           /\ log' = r.lines
    /\ UNCHANGED <<args, js_code, filters, printed, stages, exit_status>>

NextFilter == CallFilter

FilterSpec == InitFilter /\ [][NextFilter]_vars

(***************************************************************************)
(* Properties.                                                             *)
(***************************************************************************)
Range(q) == {q[k] : k \in 1..Len(q)}

\* how often x stands in q
Count(q, x) == Cardinality({k \in 1..Len(q) : q[k] = x})

\* the call of filter_bicycle_data has ended, by return or by raise
Called == pc \in {"returned", "raised"}

\* the conversion warnings logged for field
Warnings(field) ==
    Cardinality({k \in 1..Len(log) : log[k] = <<"WARNING", "convert", field>>})

\* C1: filter_bicycle_data never fails: for every record list and every filter
\* mapping it returns a list and raises nothing; a record whose cost or score
\* is not numeric is excluded and logged and does not abort the call.
C1_NeverFails == pc # "raised"

\* the text of a cost with every dollar sign taken out
C2_NoDollar(text) == SelectSeq(text, LAMBDA c : c # "$")

\* the text of a cost with one leading dollar sign taken off
C2_NoLeadingDollar(text) ==
    IF text # <<>> /\ Head(text) = "$" THEN Tail(text) ELSE text

\* the number the record's cost is read as: every dollar sign taken out, or
\* only a leading one
C2_Cost(everyDollar, r) ==
    LET text == PyStr(Get(r, F_cost))
    IN  ParseFloat(IF everyDollar THEN C2_NoDollar(text) ELSE C2_NoLeadingDollar(text))

\* the record's cost is a number and at most the bound
C2_Within(everyDollar, r, bound) ==
    LET cost == C2_Cost(everyDollar, r)
        max == PyFloat(bound)
    IN  cost.ok /\ max.ok /\ (max.inf \/ (~cost.inf /\ cost.n <= max.n))

\* the statement of C2 for a way of reading the cost: under a filter that
\* names only cost, a record that has a cost is accepted exactly when its
\* cost is a number not above the bound, the returned list holds exactly the
\* accepted records, and one warning is logged for each record whose cost, or
\* the bound, is not a number
C2_Statement(everyDollar) ==
    (Called /\ Len(filters) = 1 /\ filters[1].k = F_cost) =>
        LET bound == filters[1].v
            have == {k \in 1..Len(bicycle_data) : HasField(bicycle_data[k], F_cost)}
            within == {k \in have : C2_Within(everyDollar, bicycle_data[k], bound)}
            failed == {k \in have :
                          ~(C2_Cost(everyDollar, bicycle_data[k]).ok /\ PyFloat(bound).ok)}
        IN  /\ \A k \in have :
                   item_matches_filters(bicycle_data[k], filters).match <=> k \in within
            /\ pc = "returned" =>
                   Range(filtered_data) = {bicycle_data[k] : k \in within}
            /\ Warnings(F_cost) = Cardinality(failed)

\* C2 as claimed: a record that has a cost is accepted under {cost: X} if and
\* only if its cost, after a leading currency symbol is stripped, is a number
\* at most X (X itself included); otherwise it is rejected, with a logged
\* diagnostic when it is not a number.
C2_LeadingSymbolStripped == C2_Statement(FALSE)

\* C2 amended: a record that has a cost is accepted under {cost: X} if and
\* only if the text of its cost with every "$" removed, wherever it stands,
\* converts to a number at most X (X itself included); it is rejected when
\* the number is above X, and rejected with a logged diagnostic when the text
\* or X does not convert.
C2_EveryDollarRemoved == C2_Statement(TRUE)

\* a cost with a dollar sign inside it is accepted at exactly the bound, and
\* a cost that is not a number is rejected with a warning
C2_Witness ==
    /\ pc = "returned"
    /\ Len(filters) = 1
    /\ filters[1].k = F_cost
    /\ \E r \in Range(filtered_data) :
           /\ Get(r, F_cost) = Str(<<"1", "$", "0">>)
           /\ PyFloat(filters[1].v).n = 10
    /\ \E r \in Range(bicycle_data) :
           /\ HasField(r, F_cost)
           /\ Get(r, F_cost) = Str(<<"$">>)
           /\ r \notin Range(filtered_data)
    /\ Warnings(F_cost) > 0

\* two texts are equal up to the case of their letters
C3_SameIgnoringCase(a, b) ==
    /\ Len(a) = Len(b)
    /\ \A k \in 1..Len(a) :
           \/ a[k] = b[k]
           \/ \E j \in 1..26 : {a[k], b[k]} = {UpperChars[j], LowerChars[j]}

\* the record's score is a number at most the bound
C3_ScoreWithin(r, bound) ==
    LET score == PyFloat(Get(r, F_score))
        max == PyFloat(bound)
    IN  score.ok /\ max.ok /\ (max.inf \/ (~score.inf /\ score.n <= max.n))

\* C3: under a filter entry (field, v) whose field is not cost or score, a
\* record that has the field is accepted if and only if the text of its value
\* equals the text of v up to case; the name of the field alone decides
\* between this comparison and the threshold comparison.
C3_ExactMatch ==
    (Called /\ Len(filters) = 1) =>
        LET field == filters[1].k
            v == filters[1].v
            have == {r \in Range(bicycle_data) : HasField(r, field)}
            same(r) == C3_SameIgnoringCase(PyStr(Get(r, field)), PyStr(v))
        IN  /\ field \notin {F_cost, F_score} =>
                /\ \A r \in have :
                       item_matches_filters(r, filters).match <=> same(r)
                /\ pc = "returned" => Range(filtered_data) = {r \in have : same(r)}
            /\ field = F_score =>
                   \A r \in have :
                       item_matches_filters(r, filters).match <=> C3_ScoreWithin(r, v)

\* a record whose brand differs from the filter's in case only is returned
C3_Witness ==
    /\ pc = "returned"
    /\ filters = <<Pair(F_brand, Str(S_giro))>>
    /\ \E r \in Range(filtered_data) : Get(r, F_brand) = Str(S_GIRO)
    /\ \E r \in Range(bicycle_data) : HasField(r, F_brand) /\ r \notin Range(filtered_data)

\* the score a record is sorted by: its score as a number, infinite without one
ScoreOf(r) ==
    IF HasField(r, F_score) THEN PyFloat(Get(r, F_score))
    ELSE [ok |-> TRUE, inf |-> TRUE, n |-> 0]

\* C4: with the empty filter mapping filter_bicycle_data returns all input
\* records, none dropped and none added, in ascending order of score, every
\* record without a score after every record that has one.
C4_AllSorted ==
    (Called /\ filters = <<>>) =>
        /\ pc = "returned"
        /\ \A r \in Range(bicycle_data) \cup Range(filtered_data) :
               Count(filtered_data, r) = Count(bicycle_data, r)
        /\ \A i, j \in 1..Len(filtered_data) :
               i < j =>
                   /\ ~FloatLT(ScoreOf(filtered_data[j]), ScoreOf(filtered_data[i]))
                   /\ ~(HasField(filtered_data[j], F_score)
                            /\ ~HasField(filtered_data[i], F_score))

\* the records of q whose score is key and that are among kept, in q's order
C5_WithScore(q, key, kept) ==
    SelectSeq(q, LAMBDA r : r \in kept /\ ScoreOf(r) = key)

\* C5: records that survive filtering and have equal scores (or all lack a
\* score) stand in the returned list in the order they have in the input.
C5_Stable ==
    pc = "returned" =>
        \A x \in Range(filtered_data) :
            C5_WithScore(filtered_data, ScoreOf(x), Range(filtered_data))
                = C5_WithScore(bicycle_data, ScoreOf(x), Range(filtered_data))

\* two different records of equal score are returned in input order, before a
\* record that came first in the input and has a greater score
C5_Witness ==
    /\ pc = "returned"
    /\ Len(filtered_data) = 3
    /\ filtered_data[1] # filtered_data[2]
    /\ ScoreOf(filtered_data[1]) = ScoreOf(filtered_data[2])
    /\ bicycle_data = <<filtered_data[3], filtered_data[1], filtered_data[2]>>
    /\ ScoreOf(filtered_data[3]) # ScoreOf(filtered_data[1])

\* C6: whatever names the filter mapping uses, known or not, the filter does
\* not fail: it returns a list, and no record that lacks a named field is in it.
C6_UnknownFieldsReject ==
    (Called /\ filters # <<>>) =>
        /\ pc = "returned"
        /\ \A r \in Range(filtered_data) :
               \A k \in 1..Len(filters) : HasField(r, filters[k].k)

\* C7: a call of filter_bicycle_data leaves the input list as it was, and
\* every record of the returned list is an input record, unchanged, that
\* stands in the result at most as often as in the input.
C7_SelectsAndReorders ==
    [][pc = "call" =>
           /\ bicycle_data' = bicycle_data
           /\ \A r \in Range(filtered_data') :
                  /\ r \in Range(bicycle_data)
                  /\ Count(filtered_data', r) <= Count(bicycle_data, r)]_vars

\* a call has returned some of the records, in another order than the input's
C7_Witness ==
    /\ pc = "returned"
    /\ Len(filtered_data) = 2
    /\ Len(bicycle_data) = 3
    /\ \E i, j \in 1..3 :
           i < j /\ filtered_data = <<bicycle_data[j], bicycle_data[i]>>

\* the failure main ended with came from retrieval or extraction
C8_FetchFailed ==
    /\ pc = "exit"
    /\ exit_status = 1
    /\ "filtering" \notin Range(stages)

StageOrder == <<"retrieval", "extraction", "filtering", "presentation">>

\* C8: main enters the stages in the order retrieval, extraction, filtering,
\* presentation; when retrieval or extraction fails, filtering and
\* presentation are never entered, no record is used, and the exit status is
\* not 0; a run that gets past extraction and is not interrupted completes
\* normally: it never ends with a failure status and it reaches presentation.
C8_AbortOnlyOnFetchFailure ==
    /\ stages = SubSeq(StageOrder, 1, Len(stages))
    /\ C8_FetchFailed =>
           /\ "presentation" \notin Range(stages)
           /\ bicycle_data = <<>>
           /\ filtered_data = <<>>
           /\ printed = NotPrinted
    /\ "filtering" \in Range(stages) => exit_status # 1
    /\ pc = "done" => "presentation" \in Range(stages) /\ exit_status = 0

\* extraction has been run and has not failed
ExtractionSucceeded ==
    /\ "extraction" \in Range(stages)
    /\ \A k \in 1..Len(log) :
           log[k][2] \notin {"Could not find bicycleDataRaw", "Failed to parse JSON"}

\* C9: for every response text that holds a valid array literal of object
\* literals bound to bicycleDataRaw, extraction succeeds and yields as many
\* records as the literal has object literals, in source order.
C9_ExtractionComplete ==
    "extraction" \in Range(stages) =>
        /\ \A c \in ListedTexts :
               js_code = c.text => ExtractionSucceeded /\ bicycle_data = c.records
        /\ \A c \in OtherValidTexts :
               js_code = c.text => ExtractionSucceeded /\ Len(bicycle_data) = c.count

\* the orders of the entries of a filter mapping
Orders(fs) ==
    {[k \in 1..Len(fs) |-> fs[p[k]]] :
        p \in {q \in [1..Len(fs) -> 1..Len(fs)] :
                  \A i, j \in 1..Len(fs) : i # j => q[i] # q[j]}}

\* C10: the filter mapping is a conjunction: in whatever order its entries
\* stand, filter_bicycle_data gives the same outcome (the same records in the
\* same order), and every returned record is accepted by each entry alone.
C10_OrderIndependent ==
    Called =>
        /\ \A fs \in Orders(filters) :
               LET r == filter_bicycle_data(bicycle_data, fs)
               IN  /\ r.raised <=> pc = "raised"
                   /\ r.result = filtered_data
        /\ \A x \in Range(filtered_data) :
               \A k \in 1..Len(filters) :
                   item_matches_filters(x, <<filters[k]>>).match

\* a two-entry mapping under which some record passes one entry and fails the
\* other, and some record passes both
C10_Witness ==
    /\ pc = "returned"
    /\ Len(filters) = 2
    /\ filtered_data # <<>>
    /\ \E x \in Range(bicycle_data) :
           /\ item_matches_filters(x, <<filters[1]>>).match
           /\ ~item_matches_filters(x, <<filters[2]>>).match
    /\ \E x \in Range(bicycle_data) :
           /\ ~item_matches_filters(x, <<filters[1]>>).match
           /\ item_matches_filters(x, <<filters[2]>>).match

====
